---- MODULE Spec2Model ----
(***************************************************************************)
(* Model of the dashboard client src/dashboard/app.js: the polling tick    *)
(* (refresh), its staleness tracker, the three welfare history buffers,   *)
(* the panel / chart renderers and the report export (downloadReport).     *)
(*                                                                         *)
(* A JavaScript value that may be undefined is modelled as a sequence of   *)
(* length at most one: <<>> is undefined (the field is absent), <<v>> is   *)
(* the value v.                                                            *)
(***************************************************************************)
EXTENDS Integers, Sequences, FiniteSets, TLC

VARIABLES
    lastTimestamp,  \* app.js:9
    staleTicks,     \* app.js:10
    history,        \* app.js:4-8
    dom,            \* the display surface written by the renderers
    inflight,       \* number of refresh() calls awaiting their fetch
    late,           \* how many of them were overtaken by a later call that read its snapshot
    report,         \* downloadReport() calls awaiting their fetch, and what the last one did
    reloadPending,  \* location.reload() was called, the page is not yet torn down
    pushed,         \* log: every welfare reading pushed since the page loaded
    missed,         \* log: parsed snapshots whose welfare_impact was not pushed
    streak,         \* log: length of the run of same-timestamp ticks since the page loaded
    last            \* log: what the most recently completed refresh() did

vars == <<lastTimestamp, staleTicks, history, dom, inflight, late, report,
          reloadPending, pushed, missed, streak, last>>

(***************************************************************************)
(* Bounds of the model.                                                    *)
(***************************************************************************)
MaxInflight == 2
MaxPushes == 21
MaxStale == 7
MaxMissed == 1
ShapePushes == 2
MaxEvents == 14
MaxFlow == 3
MaxTimeline == 3
ChartPushes == 2
RacePushes == 2
ReportPushes == 1
MaxReports == 2
MaxRound == 2

(***************************************************************************)
(* Program constants.                                                      *)
(***************************************************************************)
HistoryCap == 20
StaleLimit == 6
MessagesCap == 12

None == <<>>
Some(v) == <<v>>

Min2(a, b) == IF a <= b THEN a ELSE b
Max2(a, b) == IF a >= b THEN a ELSE b

\* Array.prototype.reverse()
Reverse(s) == [i \in 1..Len(s) |-> s[Len(s) + 1 - i]]

\* Array.prototype.slice(0, n)
SliceTo(s, n) == SubSeq(s, 1, Min2(n, Len(s)))

\* `x || []` for an array-valued field
OrEmpty(opt) == IF opt = None THEN <<>> ELSE opt[1]

(***************************************************************************)
(* List panels: timeline, feed, messages.                                  *)
(***************************************************************************)
PlaceholderItem == [kind |-> "placeholder", id |-> 0]
EntryItem(e) == [kind |-> "item", id |-> e.id]

renderTimelineInOrder(items) ==
    IF Len(items) = 0 THEN <<PlaceholderItem>>
    ELSE [i \in 1..Len(items) |-> EntryItem(items[i])]

renderTimeline(items) ==
    IF Len(items) = 0 THEN <<PlaceholderItem>>
    ELSE LET r == Reverse(items) IN [i \in 1..Len(r) |-> EntryItem(r[i])]

renderFeed(events) ==
    IF Len(events) = 0 THEN <<PlaceholderItem>>
    ELSE LET r == Reverse(events) IN [i \in 1..Len(r) |-> EntryItem(r[i])]

AllowedTopics == {"policy", "strategy", "negotiation", "market"}

IsAllowed(event) == event.topic \in AllowedTopics

\* events.filter((event) => [...].includes(event.topic))
FilterAllowed(s) == SelectSeq(s, IsAllowed)

renderMessagesOldest(events) ==
    IF Len(events) = 0 THEN <<PlaceholderItem>>
    ELSE LET r == Reverse(SliceTo(FilterAllowed(events), MessagesCap))
         IN  [i \in 1..Len(r) |-> EntryItem(r[i])]

renderMessages(events) ==
    IF Len(events) = 0 THEN <<PlaceholderItem>>
    ELSE LET r == SliceTo(Reverse(FilterAllowed(events)), MessagesCap)
         IN  [i \in 1..Len(r) |-> EntryItem(r[i])]

(***************************************************************************)
(* Entity metrics panel.                                                   *)
(***************************************************************************)
InitialPanel == [kind |-> "initial", gdp |-> 0, kpis |-> 0, tables |-> 0]
NoDataPanel == [kind |-> "nodata", gdp |-> 0, kpis |-> 0, tables |-> 0]

\* data: the country record handed over, <<>> when it is undefined
renderCountryMetrics(data) ==
    IF data = None \/ data[1].gdp = None THEN NoDataPanel
    ELSE [kind |-> "card", gdp |-> data[1].gdp[1], kpis |-> 3, tables |-> 3]

\* `countries[full] || countries[alias]`
Lookup(countries, full, alias) ==
    IF countries[full] # None THEN countries[full] ELSE countries[alias]

(***************************************************************************)
(* Charts over trade_flow.  A flow value k stands for the number k/Scale;  *)
(* a ratio is an exact fraction <<numerator, denominator>>, denominator    *)
(* positive.                                                               *)
(***************************************************************************)
Scale == 2

RECURSIVE SeqMax(_, _)
SeqMax(s, floor) == IF s = <<>> THEN floor ELSE Max2(Head(s), SeqMax(Tail(s), floor))

FracLeq(a, b) == a[1] * b[2] <= b[1] * a[2]
FracEq(a, b) == a[1] * b[2] = b[1] * a[2]
FracMin(a, b) == IF FracLeq(a, b) THEN a ELSE b
FracAdd(a, b) == <<a[1] * b[2] + b[1] * a[2], a[2] * b[2]>>

FlowValues(tradeFlow) == [i \in 1..Len(tradeFlow) |-> tradeFlow[i].value]

\* Math.max(...values, 1)
FlowMax(tradeFlow) == SeqMax(FlowValues(tradeFlow), 1 * Scale)

IntensityCap == <<85, 100>>
IntensityOffset == <<2, 10>>

IntensityUncapped(value, max) == FracAdd(IntensityOffset, <<value, max>>)

Intensity(value, max) == FracMin(IntensityCap, FracAdd(IntensityOffset, <<value, max>>))

renderHeatmap(tradeFlow) ==
    [i \in 1..Len(tradeFlow) |->
        [sector |-> tradeFlow[i].sector, value |-> tradeFlow[i].value,
         intensity |-> Intensity(tradeFlow[i].value, FlowMax(tradeFlow))]]

drawTradeFlowNoFloor(tradeFlow) ==
    [i \in 1..Len(tradeFlow) |->
        [sector |-> tradeFlow[i].sector,
         height |-> <<tradeFlow[i].value, SeqMax(FlowValues(tradeFlow), 0)>>]]

\* app.js:129-153: the bar of each sector, its height as a fraction of
\* (canvas.height - 40)
drawTradeFlow(tradeFlow) ==
    [i \in 1..Len(tradeFlow) |->
        [sector |-> tradeFlow[i].sector,
         height |-> <<tradeFlow[i].value, FlowMax(tradeFlow)>>]]

(***************************************************************************)
(* History buffers and the welfare chart.                                  *)
(***************************************************************************)
EmptyHistory == [welfareAlpha |-> <<>>, welfareBeta |-> <<>>, welfareGamma |-> <<>>]

OverCapacityLate(h) == Len(h.welfareAlpha) > HistoryCap + 1

\* app.js:290
OverCapacity(h) == Len(h.welfareAlpha) > HistoryCap

ShiftAllTwice(h) ==
    [welfareAlpha |-> Tail(Tail(h.welfareAlpha)),
     welfareBeta |-> Tail(Tail(h.welfareBeta)),
     welfareGamma |-> Tail(Tail(h.welfareGamma))]

\* app.js:290-294: Array.prototype.shift() on each of the three buffers
ShiftAll(h) ==
    [welfareAlpha |-> Tail(h.welfareAlpha),
     welfareBeta |-> Tail(h.welfareBeta),
     welfareGamma |-> Tail(h.welfareGamma)]

\* the block guarded by `if (data.welfare_impact)`
PushHistory(h, impact) ==
    LET appended ==
            [welfareAlpha |-> Append(h.welfareAlpha, impact["Country Alpha"]),
             welfareBeta |-> Append(h.welfareBeta, impact["Country Beta"]),
             welfareGamma |-> Append(h.welfareGamma, impact["Country Gamma"])]
    IN  IF OverCapacity(appended) THEN ShiftAll(appended) ELSE appended

\* `.filter((v) => typeof v === "number")`: the numbers held by a buffer
Numeric(s) == {s[i][1] : i \in {j \in 1..Len(s) : s[j] # None}}

SetMin(S) == CHOOSE x \in S : \A y \in S : x <= y
SetMax(S) == CHOOSE x \in S : \A y \in S : x >= y

WelfareBoundsLowCeiling(allValues) ==
    [minValue |-> SetMin(allValues \cup {80}),
     maxValue |-> SetMax(allValues \cup {80})]

\* app.js:161-167: the bounds drawWelfare computes; app.js:204-205 prints them
WelfareBounds(allValues) ==
    [minValue |-> SetMin(allValues \cup {80}),
     maxValue |-> SetMax(allValues \cup {100})]

drawWelfare(h) ==
    LET b == WelfareBounds(Numeric(h.welfareAlpha) \cup Numeric(h.welfareBeta)
                           \cup Numeric(h.welfareGamma))
    IN  [maxPoints |-> Max2(Len(h.welfareAlpha), 2),
         minValue |-> b.minValue,
         maxValue |-> b.maxValue,
         range |-> Max2(1, b.maxValue - b.minValue)]

(***************************************************************************)
(* Snapshots: the document served at /shared/state.json.                   *)
(***************************************************************************)
NoCountries ==
    [key \in {"Country Alpha", "alpha", "Country Beta", "beta", "Country Gamma", "gamma"}
        |-> None]

BlankSnapshot ==
    [timestamp |-> "", learning |-> None, events |-> None, policy_timeline |-> None,
     countries |-> None, trade_flow |-> None, welfare_impact |-> None,
     agent_status |-> None, system_health |-> None, round |-> None]

(***************************************************************************)
(* The display surface.                                                    *)
(***************************************************************************)
InitialDom ==
    [timestamp |-> None, learning |-> None,
     timeline |-> <<>>, feed |-> <<>>, messages |-> <<>>,
     alphaMetrics |-> InitialPanel, betaMetrics |-> InitialPanel,
     gammaMetrics |-> InitialPanel,
     systemHealth |-> None, agentStatus |-> None,
     bars |-> <<>>, heatmap |-> <<>>, welfare |-> None]

Renderers ==
    {"renderTimeline", "renderFeed", "renderMessages", "drawTradeFlow",
     "renderHeatmap", "drawWelfare"}

\* app.js:263-270
MetricsPanel(panel, countries, full, alias) ==
    IF countries = None THEN panel
    ELSE LET record == Lookup(countries[1], full, alias)
         IN  IF record # None THEN renderCountryMetrics(record) ELSE panel

\* app.js:256-299: what the display shows once every renderer has run
Rendered(d, data, h) ==
    [timestamp |-> Some(data.timestamp),
     learning |-> data.learning,
     timeline |-> renderTimeline(OrEmpty(data.policy_timeline)),
     feed |-> renderFeed(OrEmpty(data.events)),
     messages |-> renderMessages(OrEmpty(data.events)),
     alphaMetrics |-> MetricsPanel(d.alphaMetrics, data.countries, "Country Alpha", "alpha"),
     betaMetrics |-> MetricsPanel(d.betaMetrics, data.countries, "Country Beta", "beta"),
     gammaMetrics |-> MetricsPanel(d.gammaMetrics, data.countries, "Country Gamma", "gamma"),
     systemHealth |-> IF data.system_health # None THEN data.system_health
                      ELSE d.systemHealth,
     agentStatus |-> IF data.agent_status # None THEN data.agent_status
                     ELSE d.agentStatus,
     bars |-> drawTradeFlow(OrEmpty(data.trade_flow)),
     heatmap |-> renderHeatmap(OrEmpty(data.trade_flow)),
     welfare |-> Some(drawWelfare(h))]

(***************************************************************************)
(* refresh(): the staleness tracker and the tick.                          *)
(***************************************************************************)
TrackStaleNoReset(stale, same) == IF same THEN stale + 1 ELSE stale

\* app.js:236-241
TrackStale(stale, same) == IF same THEN stale + 1 ELSE 0

TrackTimestamp(lastTs, ts) == IF ts = lastTs THEN lastTs ELSE ts

\* app.js:256: data.learning.alpha_aggression raises a TypeError when
\* data.learning is undefined
Throws(data) == data.learning = None

ShouldReloadEarly(stale) == stale >= StaleLimit - 1

\* app.js:300
ShouldReload(stale) == stale >= StaleLimit

\* app.js:303-305: the handler's catch clause
RefreshExit(thrown) == IF thrown THEN "caught" ELSE "returned"

NoRun ==
    [outcome |-> "none", exit |-> "none", data |-> BlankSnapshot, rendered |-> {},
     pushedHistory |-> FALSE, resetChecked |-> FALSE, reloaded |-> FALSE,
     changed |-> FALSE, preStale |-> 0, dropped |-> 0,
     cleared |-> 0]

\* no downloadReport() has run on this page
NoReport ==
    [pending |-> 0, outcome |-> "none", exit |-> "none", fetched |-> None, file |-> None]

\* The fetches awaited by refresh() calls resolve in any order.  A call is
\* overtaken when a call started after it has already read its snapshot; the
\* overtaken calls are the oldest ones.  When an overtaken call completes
\* there is one fewer; when the j-th oldest of the others reads its snapshot,
\* the j - 1 calls started before it become overtaken.
LateAfter ==
    (IF late > 0 THEN {late - 1} ELSE {}) \cup {late + j - 1 : j \in 1..(inflight - late)}

\* a call that ends before it reads a snapshot overtakes nothing
LateAfterAbort ==
    (IF late > 0 THEN {late - 1} ELSE {}) \cup (IF inflight > late THEN {late} ELSE {})

Init ==
    /\ lastTimestamp = ""
    /\ staleTicks = 0
    /\ history = EmptyHistory
    /\ dom = InitialDom
    /\ inflight = 1          \* app.js:333, the immediate refresh()
    /\ late = 0
    /\ report = NoReport
    /\ reloadPending = FALSE
    /\ pushed = EmptyHistory
    /\ missed = 0
    /\ streak = 0
    /\ last = NoRun

\* app.js:334: the interval timer calls refresh(), which issues its fetch
TimerTick ==
    /\ ~reloadPending
    /\ inflight < MaxInflight
    /\ inflight' = inflight + 1
    /\ UNCHANGED <<lastTimestamp, staleTicks, history, dom, late, report,
                   reloadPending, pushed, missed, streak, last>>

AbortedCountsStale(outcome, thrown) ==
    /\ ~reloadPending
    /\ inflight > 0
    /\ staleTicks < MaxStale
    /\ inflight' = inflight - 1
    /\ late' \in LateAfterAbort
    /\ staleTicks' = staleTicks + 1
    /\ last' = [NoRun EXCEPT !.outcome = outcome, !.exit = RefreshExit(thrown),
                             !.preStale = staleTicks]
    /\ streak' = -1
    /\ UNCHANGED <<lastTimestamp, history, dom, report, reloadPending, pushed, missed>>

\* a refresh() that ends before it reads the snapshot
Aborted(outcome, thrown) ==
    /\ ~reloadPending
    /\ inflight > 0
    /\ inflight' = inflight - 1
    /\ late' \in LateAfterAbort
    /\ last' = [NoRun EXCEPT !.outcome = outcome, !.exit = RefreshExit(thrown),
                             !.preStale = staleTicks]
    /\ streak' = -1
    /\ UNCHANGED <<lastTimestamp, staleTicks, history, dom, report, reloadPending,
                   pushed, missed>>

\* app.js:225: fetch() rejects
FetchFails == Aborted("transport", TRUE)

\* app.js:226
BadStatus == Aborted("status", FALSE)

\* app.js:228-232
ParseFails == Aborted("parse", FALSE)

\* app.js:233-302: the snapshot was fetched and parsed
Tick(data, maxPushes) ==
    LET same == data.timestamp = lastTimestamp
        stale == TrackStale(staleTicks, same)
        thrown == Throws(data)
        push == ~thrown /\ data.welfare_impact # None
        h == IF push THEN PushHistory(history, data.welfare_impact[1]) ELSE history
        reload == ~thrown /\ ShouldReload(stale)
    IN  /\ ~reloadPending
        /\ inflight > 0
        /\ stale <= MaxStale
        /\ push => Len(pushed.welfareAlpha) < maxPushes
        /\ (thrown /\ data.welfare_impact # None) => missed < MaxMissed
        /\ inflight' = inflight - 1
        /\ late' \in LateAfter
        /\ report' = report
        /\ staleTicks' = stale
        /\ lastTimestamp' = TrackTimestamp(lastTimestamp, data.timestamp)
        /\ history' = h
        /\ dom' = IF thrown THEN [dom EXCEPT !.timestamp = Some(data.timestamp)]
                  ELSE Rendered(dom, data, h)
        /\ reloadPending' = reload
        /\ pushed' = IF push
                     THEN [welfareAlpha |-> Append(pushed.welfareAlpha,
                                                   data.welfare_impact[1]["Country Alpha"]),
                           welfareBeta |-> Append(pushed.welfareBeta,
                                                  data.welfare_impact[1]["Country Beta"]),
                           welfareGamma |-> Append(pushed.welfareGamma,
                                                   data.welfare_impact[1]["Country Gamma"])]
                     ELSE pushed
        /\ missed' = IF thrown /\ data.welfare_impact # None THEN missed + 1 ELSE missed
        /\ streak' = IF streak = 0 THEN 1
                     ELSE IF streak > 0 /\ same THEN streak + 1
                     ELSE -1
        /\ last' = [outcome |-> "ok", exit |-> RefreshExit(thrown), data |-> data,
                    rendered |-> IF thrown THEN {} ELSE Renderers,
                    pushedHistory |-> push, resetChecked |-> ~thrown,
                    reloaded |-> reload, changed |-> ~same,
                    preStale |-> staleTicks, dropped |-> 0,
                    cleared |-> 0]

PageLoadKeepsFetches ==
    /\ reloadPending
    /\ lastTimestamp' = ""
    /\ staleTicks' = 0
    /\ history' = EmptyHistory
    /\ dom' = InitialDom
    /\ inflight' = Min2(inflight + 1, MaxInflight)
    /\ late' = late
    /\ report' = NoReport
    /\ reloadPending' = FALSE
    /\ pushed' = EmptyHistory
    /\ missed' = 0
    /\ streak' = 0
    /\ last' = [NoRun EXCEPT !.outcome = "reloaded", !.preStale = staleTicks,
                             !.dropped = inflight,
                             !.cleared = Len(history.welfareAlpha)]

\* app.js:301: location.reload() takes effect.  The page is torn down with
\* its script state (app.js:4-10) and its pending fetches; the new page runs
\* the script from the top, which issues one fetch (app.js:333).
PageLoad ==
    /\ reloadPending
    /\ lastTimestamp' = ""
    /\ staleTicks' = 0
    /\ history' = EmptyHistory
    /\ dom' = InitialDom
    /\ inflight' = 1
    /\ late' = 0
    /\ report' = NoReport
    /\ reloadPending' = FALSE
    /\ pushed' = EmptyHistory
    /\ missed' = 0
    /\ streak' = 0
    /\ last' = [NoRun EXCEPT !.outcome = "reloaded", !.preStale = staleTicks,
                             !.dropped = inflight,
                             !.cleared = Len(history.welfareAlpha)]

(***************************************************************************)
(* The network answers the requests in the order they were sent.  The      *)
(* session, shape, panel and chart specifications run on such a network;   *)
(* SpecRace below lifts the restriction.                                   *)
(***************************************************************************)
InOrder == late' = 0

(***************************************************************************)
(* The session specification: snapshots that differ in their timestamp,    *)
(* in whether learning is present and in whether welfare_impact is; the    *)
(* k-th welfare reading pushed since the page loaded is Reading(k).        *)
(***************************************************************************)
Timestamps == {"", "t1", "t2"}

Reading(k) ==
    [key \in {"Country Alpha", "Country Beta", "Country Gamma"} |->
        IF key = "Country Alpha" THEN (IF k % 5 = 3 THEN None ELSE Some(60 + 2 * k))
        ELSE IF key = "Country Beta" THEN (IF k % 7 = 5 THEN None ELSE Some(85 + (k % 11)))
        ELSE Some(120 - k)]

SessionSnapshots ==
    {[BlankSnapshot EXCEPT !.timestamp = ts, !.learning = l, !.welfare_impact = w] :
        ts \in Timestamps,
        l \in {None, Some("note")},
        w \in {None, Some(Reading(Len(pushed.welfareAlpha) + 1))}}

SessionTick == \E data \in SessionSnapshots : Tick(data, MaxPushes)

Next ==
    \/ InOrder /\ TimerTick
    \/ InOrder /\ FetchFails
    \/ InOrder /\ BadStatus
    \/ InOrder /\ ParseFails
    \/ InOrder /\ SessionTick
    \/ InOrder /\ PageLoad

Spec == Init /\ [][Next]_vars

(***************************************************************************)
(* Steps and logs the properties speak about.                              *)
(***************************************************************************)
\* this step is a refresh() that fetched and parsed its snapshot
TickStep == inflight' = inflight - 1 /\ last'.outcome = "ok"

\* this step is a refresh() whose fetch, status or parse failed
AbortStep == inflight' = inflight - 1 /\ last'.outcome \in {"transport", "status", "parse"}

Buffers == {"welfareAlpha", "welfareBeta", "welfareGamma"}

\* the last n elements of s
LastN(s, n) == SubSeq(s, Len(s) - n + 1, Len(s))

\* parsed snapshots carrying welfare_impact since the page loaded
WelfareTicks == Len(pushed.welfareAlpha) + missed

(* C1: at every tick boundary each of the three history buffers holds at
   most 20 values. *)
C1_HistoryBounded == \A b \in Buffers : Len(history[b]) <= HistoryCap

C1_Witness ==
    /\ Len(pushed.welfareAlpha) > HistoryCap
    /\ \A b \in Buffers : Len(history[b]) = HistoryCap

(* C2 as stated: from a fresh client, the reset fires on the 6th consecutive
   tick carrying the same timestamp (here: whenever that tick reaches the
   reset check) and on none of the first 5. *)
C2_ResetOnSixth ==
    /\ streak \in 1..5 => ~last.reloaded
    /\ (streak = 6 /\ last.resetChecked) => last.reloaded

(* C2 amended: from a fresh client and with a non-empty timestamp, the
   reset fires on none of the first 6 consecutive ticks carrying the same
   timestamp; the first of them only records the timestamp, so staleTicks is
   6 after the 7th, and the reset check of the 7th tick fires. *)
C2_ResetOnSeventh ==
    lastTimestamp # "" =>
        /\ streak \in 1..6 => (~last.reloaded /\ ~reloadPending /\ staleTicks = streak - 1)
        /\ streak = 7 => (staleTicks = StaleLimit /\ (last.resetChecked => last.reloaded))

C2_Witness ==
    streak = 7 /\ lastTimestamp # "" /\ last.reloaded /\ reloadPending

(* C3: a parsed tick whose timestamp differs from lastTimestamp ends with
   staleTicks = 0 and lastTimestamp set to the new timestamp; one whose
   timestamp equals lastTimestamp adds exactly 1 to staleTicks and leaves
   lastTimestamp alone. *)
C3_Tracker ==
    [][TickStep =>
        IF last'.data.timestamp # lastTimestamp
        THEN staleTicks' = 0 /\ lastTimestamp' = last'.data.timestamp
        ELSE staleTicks' = staleTicks + 1 /\ lastTimestamp' = lastTimestamp]_vars

C3_Witness ==
    /\ last.outcome = "ok"
    /\ last.changed
    /\ last.preStale >= 2
    /\ staleTicks = 0
    /\ lastTimestamp = last.data.timestamp

(* C4: a tick whose fetch fails in transport, whose status is not ok or
   whose body does not parse leaves lastTimestamp, staleTicks and the three
   buffers as they were, triggers no reset and does not throw out of
   refresh. *)
C4_AbortedTickFrame ==
    [][AbortStep =>
        /\ UNCHANGED <<lastTimestamp, staleTicks, history>>
        /\ ~reloadPending'
        /\ ~last'.reloaded
        /\ last'.exit \in {"returned", "caught"}]_vars

C4_Witness ==
    /\ last.outcome = "transport"
    /\ last.exit = "caught"
    /\ staleTicks > 0
    /\ Len(history.welfareAlpha) > 0

(* C5 as stated: after n parsed ticks whose snapshots carry welfare_impact,
   each buffer holds exactly the last min(n, 20) values pushed for its
   entity, oldest first. *)
C5_LastValuesOfWelfareTicks ==
    \A b \in Buffers :
        /\ Len(history[b]) = Min2(WelfareTicks, HistoryCap)
        /\ history[b] = LastN(pushed[b], Min2(Len(pushed[b]), HistoryCap))

\* the buffers as a first-in first-out window over the pushes that happened
FifoOfPushed ==
    \A b \in Buffers : history[b] = LastN(pushed[b], Min2(Len(pushed[b]), HistoryCap))

(***************************************************************************)
(* The shape specification: snapshots with one timestamp that lack some of *)
(* the optional fields, or whose countries mapping lacks records, aliases  *)
(* or gdp values.                                                          *)
(***************************************************************************)
OptionalFields ==
    {"learning", "events", "policy_timeline", "countries", "trade_flow",
     "welfare_impact", "agent_status", "system_health"}

SampleEvents == <<[id |-> 1, topic |-> "strategy"], [id |-> 2, topic |-> "other"]>>
SampleTimeline == <<[id |-> 1], [id |-> 2]>>
SampleFlow == <<[sector |-> "electronics", value |-> 10 * Scale],
                [sector |-> "energy", value |-> 0]>>

Country(gdp) == Some([gdp |-> gdp])

CountryVariants ==
    { \* every entity under its full name
      [NoCountries EXCEPT !["Country Alpha"] = Country(Some(1)),
                          !["Country Beta"] = Country(Some(1)),
                          !["Country Gamma"] = Country(Some(1))],
      \* every entity under its alias
      [NoCountries EXCEPT !["alpha"] = Country(Some(2)),
                          !["beta"] = Country(Some(2)),
                          !["gamma"] = Country(Some(2))],
      \* a record without gdp, a missing record, a full record
      [NoCountries EXCEPT !["Country Alpha"] = Country(None),
                          !["Country Gamma"] = Country(Some(3))],
      \* a mapping without records
      NoCountries }

\* the snapshot with exactly the optional fields of `present`
Shaped(present, countries) ==
    [timestamp |-> "t1",
     learning |-> IF "learning" \in present THEN Some("note") ELSE None,
     events |-> IF "events" \in present THEN Some(SampleEvents) ELSE None,
     policy_timeline |-> IF "policy_timeline" \in present THEN Some(SampleTimeline)
                         ELSE None,
     countries |-> IF "countries" \in present THEN Some(countries) ELSE None,
     trade_flow |-> IF "trade_flow" \in present THEN Some(SampleFlow) ELSE None,
     welfare_impact |-> IF "welfare_impact" \in present
                        THEN Some(Reading(Len(pushed.welfareAlpha) + 1)) ELSE None,
     agent_status |-> IF "agent_status" \in present THEN Some("running") ELSE None,
     system_health |-> IF "system_health" \in present THEN Some("file") ELSE None]

\* nothing absent, everything absent, one field absent, one field present
Presences ==
    {OptionalFields, {}}
    \cup {OptionalFields \ {f} : f \in OptionalFields}
    \cup {{f} : f \in OptionalFields}

ShapeSnapshots ==
    {Shaped(present, CHOOSE c \in CountryVariants : c["Country Beta"] # None) :
        present \in Presences}
    \cup {Shaped(OptionalFields, c) : c \in CountryVariants}

ShapeTick == \E data \in ShapeSnapshots : Tick(data, ShapePushes)

NextShape ==
    \/ InOrder /\ TimerTick
    \/ InOrder /\ FetchFails
    \/ InOrder /\ BadStatus
    \/ InOrder /\ ParseFails
    \/ InOrder /\ ShapeTick
    \/ InOrder /\ PageLoad

SpecShape == Init /\ [][NextShape]_vars

\* the record refresh() looks up for an entity, <<>> when there is none
RecordOf(data, full, alias) ==
    IF data.countries = None THEN None ELSE Lookup(data.countries[1], full, alias)

Entities ==
    {[panel |-> "alphaMetrics", full |-> "Country Alpha", alias |-> "alpha"],
     [panel |-> "betaMetrics", full |-> "Country Beta", alias |-> "beta"],
     [panel |-> "gammaMetrics", full |-> "Country Gamma", alias |-> "gamma"]}

(* C6 as stated: a parsed snapshot lacking any of the fields other than
   timestamp still runs to completion: nothing reaches the handler's catch
   clause, every renderer is invoked, the buffers are pushed when
   welfare_impact is present and the reset check is evaluated. *)
C6_RunsToCompletion ==
    last.outcome = "ok" =>
        /\ last.exit = "returned"
        /\ last.rendered = Renderers
        /\ last.data.welfare_impact # None => last.pushedHistory
        /\ last.resetChecked

\* the absence of learning is the only absence that cuts a tick short
CompletesWithLearning ==
    (last.outcome = "ok" /\ last.data.learning # None) =>
        /\ last.exit = "returned"
        /\ last.rendered = Renderers
        /\ last.data.welfare_impact # None => last.pushedHistory
        /\ last.resetChecked

(* C8 as stated: after every parsed tick (here: every one that reached the
   renderers), an entity without a record or without gdp in the snapshot
   shows only the no-data placeholder (here: or the page's untouched initial
   markup), never content of an earlier tick, and any other entity shows the
   three KPIs and three tables of this snapshot. *)
C8_MetricsPanels ==
    (last.outcome = "ok" /\ last.rendered = Renderers) =>
        \A e \in Entities :
            LET record == RecordOf(last.data, e.full, e.alias)
            IN  IF record = None \/ record[1].gdp = None
                THEN dom[e.panel] \in {NoDataPanel, InitialPanel}
                ELSE dom[e.panel] = [kind |-> "card", gdp |-> record[1].gdp[1],
                                     kpis |-> 3, tables |-> 3]

(***************************************************************************)
(* The panels specification: snapshots with one timestamp that differ in   *)
(* events, in policy_timeline or in trade_flow.  The id of an event or of  *)
(* a timeline entry is its position in the sequence served.                *)
(***************************************************************************)
Topics == AllowedTopics \cup {"other"}

TopicCycle == <<"policy", "strategy", "negotiation", "market">>

\* every sequence of at most two events
ShortEvents ==
    UNION {{[i \in 1..n |-> [id |-> i, topic |-> t[i]]] : t \in [1..n -> Topics]} :
             n \in 0..2}

\* long sequences: every topic allowed; the last but one not allowed; every
\* other one not allowed
LongEvents ==
    UNION {{[i \in 1..n |-> [id |-> i, topic |-> TopicCycle[(i % 4) + 1]]],
            [i \in 1..n |-> [id |-> i, topic |-> IF i = n - 1 THEN "other"
                                                 ELSE TopicCycle[(i % 4) + 1]]],
            [i \in 1..n |-> [id |-> i, topic |-> IF i % 2 = 1 THEN "other"
                                                 ELSE TopicCycle[(i % 4) + 1]]]} :
             n \in (MessagesCap - 1)..MaxEvents}

Timelines == {[i \in 1..n |-> [id |-> i]] : n \in 0..MaxTimeline}

Sectors == <<"electronics", "energy">>

\* every mapping over a prefix of Sectors, each value in -1/Scale .. MaxFlow/Scale
Flows ==
    UNION {{[i \in 1..n |-> [sector |-> Sectors[i], value |-> v[i]]] :
              v \in [1..n -> (-1)..MaxFlow]} : n \in 0..2}
    \cup {SampleFlow}

Panelled == [BlankSnapshot EXCEPT !.timestamp = "t1", !.learning = Some("note")]

PanelSnapshots ==
    {Panelled, [Panelled EXCEPT !.learning = None, !.events = Some(SampleEvents)]}
    \cup {[Panelled EXCEPT !.events = Some(e)] : e \in ShortEvents \cup LongEvents}
    \cup {[Panelled EXCEPT !.policy_timeline = Some(t)] : t \in Timelines}
    \cup {[Panelled EXCEPT !.trade_flow = Some(f)] : f \in Flows}

PanelTick == \E data \in PanelSnapshots : Tick(data, 0)

NextPanels ==
    \/ InOrder /\ TimerTick
    \/ InOrder /\ FetchFails
    \/ InOrder /\ BadStatus
    \/ InOrder /\ ParseFails
    \/ InOrder /\ PanelTick
    \/ InOrder /\ PageLoad

SpecPanels == Init /\ [][NextPanels]_vars

\* the most recent parsed tick reached the renderers
RenderedStep == last.outcome = "ok" /\ last.rendered = Renderers

(* C7: the messages panel shows exactly the events whose topic is policy,
   strategy, negotiation or market, restricted to the 12 latest of them,
   most recent first; no event of another topic is shown and no more than
   12 items are. *)
C7_Messages ==
    RenderedStep =>
        LET events == OrEmpty(last.data.events)
            items == dom.messages
            shown == {i \in 1..Len(items) : items[i].kind = "item"}
            shownIds == {items[i].id : i \in shown}
            allowed == {j \in 1..Len(events) :
                          events[j].topic \in {"policy", "strategy", "negotiation", "market"}}
        IN  /\ Len(items) <= 12
            /\ shownIds \subseteq allowed
            /\ Cardinality(shown) = Min2(12, Cardinality(allowed))
            /\ \A i, j \in shown : i < j => items[i].id > items[j].id
            /\ \A a \in allowed : \A b \in shownIds : (a > b) => a \in shownIds

C7_Witness ==
    /\ RenderedStep
    /\ Len(dom.messages) = 12
    /\ Len(OrEmpty(last.data.events)) > 13
    /\ \E j \in 1..Len(OrEmpty(last.data.events)) : last.data.events[1][j].topic = "other"
    /\ dom.messages[1].id = Len(OrEmpty(last.data.events))
    /\ dom.messages[12].id = 2

\* items is the whole of input, most recent first, or one placeholder
ListShown(items, input) ==
    IF Len(input) = 0
    THEN items = <<[kind |-> "placeholder", id |-> 0]>>
    ELSE /\ Len(items) = Len(input)
         /\ \A i \in 1..Len(items) :
                items[i] = [kind |-> "item", id |-> input[Len(input) + 1 - i].id]

(* C9: the timeline over policy_timeline and the feed over events render
   exactly one placeholder item for an empty or absent input, and for an
   input of n items the n items, in the reverse of the input order, without
   placeholder. *)
C9_TimelineAndFeed ==
    RenderedStep =>
        /\ ListShown(dom.timeline, OrEmpty(last.data.policy_timeline))
        /\ ListShown(dom.feed, OrEmpty(last.data.events))

C9_Witness ==
    /\ RenderedStep
    /\ Len(OrEmpty(last.data.policy_timeline)) = 3
    /\ Len(dom.timeline) = 3
    /\ dom.timeline[1].id = 3
    /\ last.data.events = None
    /\ dom.feed = <<PlaceholderItem>>

\* x is the smaller of the fractions a and b
IsFracMin(x, a, b) ==
    /\ FracLeq(x, a)
    /\ FracLeq(x, b)
    /\ FracEq(x, a) \/ FracEq(x, b)

\* max(all values, 1) of a trade_flow mapping, in units of 1/Scale
MaxOfFlow(flow) == SetMax({flow[i].value : i \in 1..Len(flow)} \cup {Scale})

\* cell i of the heatmap has intensity min(0.85, 0.2 + value/max)
CellIntensity(flow, i) ==
    /\ dom.heatmap[i].sector = flow[i].sector
    /\ IsFracMin(dom.heatmap[i].intensity, <<85, 100>>,
                 <<2 * MaxOfFlow(flow) + 10 * flow[i].value, 10 * MaxOfFlow(flow)>>)
    /\ flow[i].value = MaxOfFlow(flow) => FracEq(dom.heatmap[i].intensity, <<85, 100>>)
    /\ flow[i].value = 0 => FracEq(dom.heatmap[i].intensity, <<2, 10>>)

CellInRange(i) ==
    /\ FracLeq(<<2, 10>>, dom.heatmap[i].intensity)
    /\ FracLeq(dom.heatmap[i].intensity, <<85, 100>>)

(* C10 as stated: for every trade_flow mapping of numbers each sector's
   intensity is min(0.85, 0.2 + value/max) with max = max(all values, 1),
   lies in [0.2, 0.85], is 0.85 where value = max and 0.2 where value = 0. *)
C10_IntensityInRange ==
    RenderedStep =>
        LET flow == OrEmpty(last.data.trade_flow)
        IN  /\ Len(dom.heatmap) = Len(flow)
            /\ \A i \in 1..Len(flow) : CellIntensity(flow, i) /\ CellInRange(i)

(* C10 amended: each sector's intensity is min(0.85, 0.2 + value/max) with
   max = max(all values, 1), is 0.85 where value = max and 0.2 where
   value = 0, and lies in [0.2, 0.85] for every sector whose value is not
   negative. *)
C10_IntensityOfNonNegative ==
    RenderedStep =>
        LET flow == OrEmpty(last.data.trade_flow)
        IN  /\ Len(dom.heatmap) = Len(flow)
            /\ \A i \in 1..Len(flow) :
                   /\ CellIntensity(flow, i)
                   /\ flow[i].value >= 0 => CellInRange(i)

C10_Witness ==
    /\ RenderedStep
    /\ Len(dom.heatmap) = 2
    /\ dom.heatmap[1].value = MaxFlow
    /\ MaxFlow > Scale
    /\ FracEq(dom.heatmap[1].intensity, <<85, 100>>)
    /\ dom.heatmap[2].value = 0
    /\ FracEq(dom.heatmap[2].intensity, <<2, 10>>)

(***************************************************************************)
(* The chart specification: every snapshot carries learning and the same   *)
(* timestamp; welfare_impact is absent or one of a few readings, some with *)
(* entities that carry no number.                                          *)
(***************************************************************************)
ChartReading(a, b, c) ==
    [key \in {"Country Alpha", "Country Beta", "Country Gamma"} |->
        IF key = "Country Alpha" THEN a ELSE IF key = "Country Beta" THEN b ELSE c]

ChartReadings ==
    {ChartReading(Some(85), Some(95), Some(90)),
     ChartReading(None, Some(88), None),
     ChartReading(Some(110), Some(90), Some(90)),
     ChartReading(Some(70), Some(90), None),
     ChartReading(None, None, None)}

ChartSnapshots ==
    {[BlankSnapshot EXCEPT !.timestamp = "t1", !.learning = Some("note"),
                           !.welfare_impact = w] :
        w \in {None} \cup {Some(r) : r \in ChartReadings}}

ChartTick == \E data \in ChartSnapshots : Tick(data, ChartPushes)

NextChart ==
    \/ InOrder /\ TimerTick
    \/ InOrder /\ FetchFails
    \/ InOrder /\ BadStatus
    \/ InOrder /\ ParseFails
    \/ InOrder /\ ChartTick
    \/ InOrder /\ PageLoad

SpecChart == Init /\ [][NextChart]_vars

\* the numbers held by the three buffers
Plotted ==
    UNION {{history[b][i][1] : i \in {j \in 1..Len(history[b]) : history[b][j] # None}} :
           b \in Buffers}

(* C11: the welfare chart's lower bound is the least of 80 and the numbers in
   the three buffers, its upper bound the greatest of 100 and those numbers,
   entries that are not numbers are ignored, and its range is
   max(1, upper - lower), hence at least 1; numbers all within [85, 95] give
   the bounds 80 and 100, and a greatest number of 110 gives the upper
   bound 110. *)
C11_WelfareBounds ==
    dom.welfare # None =>
        LET w == dom.welfare[1]
        IN  /\ w.minValue \in Plotted \cup {80}
            /\ \A v \in Plotted \cup {80} : w.minValue <= v
            /\ w.maxValue \in Plotted \cup {100}
            /\ \A v \in Plotted \cup {100} : w.maxValue >= v
            /\ w.range >= 1
            /\ w.range = (IF w.maxValue - w.minValue >= 1
                          THEN w.maxValue - w.minValue ELSE 1)
            /\ Plotted \subseteq 85..95 => (w.minValue = 80 /\ w.maxValue = 100)
            /\ (110 \in Plotted /\ \A v \in Plotted : v <= 110) => w.maxValue = 110

C11_Witness ==
    /\ last.outcome = "ok" /\ last.rendered = Renderers
    /\ Plotted # {} /\ Plotted \subseteq 85..95
    /\ \E b \in Buffers : \E i \in 1..Len(history[b]) : history[b][i] = None
    /\ dom.welfare = Some([maxPoints |-> 2, minValue |-> 80, maxValue |-> 100, range |-> 20])

(* C12: the bar chart draws one bar per sector, in mapping order, with height
   value / max of the drawable height (canvas height - 40), where max is the
   greatest of 1 and all the values and so is never zero: a sector whose value
   equals max >= 1 is drawn at full height, a value of 0 at height zero, and
   {electronics: 10, energy: 0} gives max 10, electronics at full height and
   energy at zero. *)
C12_Bars ==
    RenderedStep =>
        LET flow == OrEmpty(last.data.trade_flow)
        IN  /\ Len(dom.bars) = Len(flow)
            /\ \A i \in 1..Len(flow) :
                   LET bar == dom.bars[i]
                   IN  /\ bar.sector = flow[i].sector
                       /\ bar.height = <<flow[i].value, MaxOfFlow(flow)>>
                       /\ bar.height[2] >= Scale
                       /\ flow[i].value = MaxOfFlow(flow) => FracEq(bar.height, <<1, 1>>)
                       /\ flow[i].value = 0 => FracEq(bar.height, <<0, 1>>)
            /\ flow = SampleFlow =>
                   /\ MaxOfFlow(flow) = 10 * Scale
                   /\ dom.bars[1].sector = "electronics" /\ FracEq(dom.bars[1].height, <<1, 1>>)
                   /\ dom.bars[2].sector = "energy" /\ FracEq(dom.bars[2].height, <<0, 1>>)

C12_Witness ==
    /\ RenderedStep
    /\ last.data.trade_flow = Some(SampleFlow)
    /\ dom.bars = <<[sector |-> "electronics", height |-> <<10 * Scale, 10 * Scale>>],
                    [sector |-> "energy", height |-> <<0, 10 * Scale>>]>>

(***************************************************************************)
(* The race specification: the responses arrive in any order.  Every       *)
(* snapshot carries learning; the timestamp is one of two and              *)
(* welfare_impact is absent or the next reading.                           *)
(***************************************************************************)
RaceSnapshots ==
    {[BlankSnapshot EXCEPT !.timestamp = ts, !.learning = Some("note"),
                           !.welfare_impact = w] :
        ts \in {"t1", "t2"},
        w \in {None, Some(Reading(Len(pushed.welfareAlpha) + 1))}}

RaceTick == \E data \in RaceSnapshots : Tick(data, RacePushes)

NextRace == TimerTick \/ FetchFails \/ BadStatus \/ ParseFails \/ RaceTick \/ PageLoad

SpecRace == Init /\ [][NextRace]_vars

\* this step completes a refresh() that a later call had overtaken
LateStep == inflight' = inflight - 1 /\ late' = late - 1

(* C13: ticks are serialized.  Either no tick starts while another is
   outstanding, or the response of a tick that arrives after a tick started
   later has applied its snapshot is discarded; in both readings no such late
   response changes the Session State or the display, so that the updates are
   applied in the order the ticks were started. *)
C13_Serialized ==
    [][LateStep => UNCHANGED <<lastTimestamp, staleTicks, history, dom>>]_vars

\* this step is the page reload taking effect
ResetStep == reloadPending /\ ~reloadPending'

(* C14: a client reset discards all Session State unconditionally:
   immediately after the reset lastTimestamp is empty, staleTicks is 0 and the
   three buffers are empty, and no response to a fetch issued before the reset
   can change the state after it: the only refresh() outstanding is the one the
   new page has just started, and none is left over from the old page. *)
C14_ResetDiscards ==
    [][ResetStep =>
        /\ lastTimestamp' = ""
        /\ staleTicks' = 0
        /\ \A b \in Buffers : history'[b] = <<>>
        /\ inflight' = 1
        /\ late' = 0]_vars

C14_Witness ==
    /\ last.outcome = "reloaded"
    /\ last.dropped >= 1
    /\ last.cleared >= 1
    /\ last.preStale >= StaleLimit
    /\ lastTimestamp = "" /\ staleTicks = 0 /\ history = EmptyHistory
    /\ inflight = 1 /\ late = 0

(***************************************************************************)
(* downloadReport(): the report button.                                    *)
(***************************************************************************)
\* `${data.round}` in a template literal
RoundText(round) == IF round = None THEN "undefined" ELSE ToString(round[1])

ReportNameDisplayed(data) == <<"trade-conflict-round-", RoundText(last.data.round), ".json">>

\* app.js:320
ReportName(data) == <<"trade-conflict-round-", RoundText(data.round), ".json">>

\* app.js:329-331 and 310: a click starts downloadReport(), which issues its fetch
ReportClick ==
    /\ ~reloadPending
    /\ report.pending < MaxReports
    /\ report' = [report EXCEPT !.pending = @ + 1]
    /\ UNCHANGED <<lastTimestamp, staleTicks, history, dom, inflight, late,
                   reloadPending, pushed, missed, streak, last>>

\* a downloadReport() that ends before it has a snapshot
ReportAborted(outcome, thrown) ==
    /\ ~reloadPending
    /\ report.pending > 0
    /\ report' = [pending |-> report.pending - 1, outcome |-> outcome,
                  exit |-> RefreshExit(thrown), fetched |-> None, file |-> None]
    /\ UNCHANGED <<lastTimestamp, staleTicks, history, dom, inflight, late,
                   reloadPending, pushed, missed, streak, last>>

\* app.js:310: fetch() rejects; app.js:324-326 logs it
ReportFetchFails == ReportAborted("transport", TRUE)

\* app.js:311
ReportBadStatus == ReportAborted("status", FALSE)

\* app.js:312: response.json() rejects; app.js:324-326 logs it
ReportParseFails == ReportAborted("parse", TRUE)

\* app.js:312-323: the snapshot was fetched and parsed, the link is clicked
ReportDone(data) ==
    /\ ~reloadPending
    /\ report.pending > 0
    /\ report' = [pending |-> report.pending - 1, outcome |-> "ok",
                  exit |-> "returned", fetched |-> Some(data),
                  file |-> Some([name |-> ReportName(data), body |-> data])]
    /\ UNCHANGED <<lastTimestamp, staleTicks, history, dom, inflight, late,
                   reloadPending, pushed, missed, streak, last>>

(***************************************************************************)
(* The report specification: the user clicks the report button while the   *)
(* page polls.  Every snapshot carries learning and the same timestamp;    *)
(* its round is absent or a number, welfare_impact is absent or the next   *)
(* reading.                                                                *)
(***************************************************************************)
Rounds == {None} \cup {Some(r) : r \in 1..MaxRound}

ReportSnapshots ==
    {[BlankSnapshot EXCEPT !.timestamp = "t1", !.learning = Some("note"),
                           !.round = r, !.welfare_impact = w] :
        r \in Rounds,
        w \in {None, Some(Reading(Len(pushed.welfareAlpha) + 1))}}

PollTick == \E data \in ReportSnapshots : Tick(data, ReportPushes)

ReportDelivered == \E data \in ReportSnapshots : ReportDone(data)

NextReport ==
    \/ InOrder /\ TimerTick
    \/ InOrder /\ FetchFails
    \/ InOrder /\ BadStatus
    \/ InOrder /\ ParseFails
    \/ InOrder /\ PollTick
    \/ InOrder /\ PageLoad
    \/ InOrder /\ ReportClick
    \/ InOrder /\ ReportFetchFails
    \/ InOrder /\ ReportBadStatus
    \/ InOrder /\ ReportParseFails
    \/ InOrder /\ ReportDelivered

SpecReport == Init /\ [][NextReport]_vars

\* this step is a click on the report button or the end of a downloadReport()
ReportAct == ~reloadPending /\ report' # report

\* this step is the end of a downloadReport()
ReportEnd == ~reloadPending /\ report'.pending = report.pending - 1

(* C15: the report export leaves the Session State unchanged and never
   triggers a reset; when its fetch and parse succeed it offers the snapshot it
   has just fetched as a file named trade-conflict-round-<round>, with the round
   of that snapshot; when the fetch or the parse fails it offers no file and
   raises no error. *)
C15_ReportExport ==
    [][/\ ReportAct =>
            /\ UNCHANGED <<lastTimestamp, staleTicks, history>>
            /\ ~reloadPending'
       /\ ReportEnd =>
            IF report'.outcome = "ok"
            THEN /\ report'.fetched # None
                 /\ report'.file # None
                 /\ report'.file[1].body = report'.fetched[1]
                 /\ report'.file[1].name[1] = "trade-conflict-round-"
                 /\ \/ /\ report'.fetched[1].round = None
                       /\ report'.file[1].name[2] = "undefined"
                    \/ \E r \in 1..MaxRound :
                          /\ report'.fetched[1].round = Some(r)
                          /\ report'.file[1].name[2] = ToString(r)
            ELSE /\ report'.file = None
                 /\ report'.exit \in {"returned", "caught"}]_vars

C15_Witness ==
    /\ report.outcome = "ok"
    /\ report.fetched # None /\ report.fetched[1].round = Some(2)
    /\ last.outcome = "ok" /\ last.data.round = Some(1)
    /\ report.file # None
    /\ report.file[1].name = <<"trade-conflict-round-", "2", ".json">>
    /\ staleTicks > 0 /\ Len(history.welfareAlpha) > 0

(* C16: after every render the messages panel holds at least one message item
   or exactly one placeholder item, never nothing at all, also when events is
   not empty but none of its events has an allow-listed topic. *)
C16_MessagesNeverEmpty ==
    RenderedStep =>
        \/ \E i \in 1..Len(dom.messages) : dom.messages[i].kind = "item"
        \/ Len(dom.messages) = 1 /\ dom.messages[1].kind = "placeholder"

(* C17: sustained non-progress leads to recovery.  When every tick fetches and
   parses a snapshot with the same timestamp, whatever its other fields hold
   or omit, the client reset fires.  The code fires the reset in the tick that
   finds staleTicks at the threshold or beyond (C2), so the claim requires
   that no successful tick ends with staleTicks at or beyond the threshold
   and the reset not fired: a tick that ends so leaves the client where the
   next same-timestamp snapshot does the same again. *)
C17_StallResets ==
    (last.outcome = "ok" /\ staleTicks >= StaleLimit) => (last.reloaded /\ reloadPending)

\* the entity whose readings a buffer holds
EntityOf(b) ==
    IF b = "welfareAlpha" THEN "Country Alpha"
    ELSE IF b = "welfareBeta" THEN "Country Beta" ELSE "Country Gamma"

\* this step is a successful tick whose snapshot carries welfare_impact
WelfareStep == TickStep /\ last'.data.welfare_impact # None

(* C18: the three buffers advance in lockstep.  At every tick boundary they
   have the same length, and a successful tick whose snapshot carries
   welfare_impact appends exactly one element to each of them, the entity's
   value or the missing value when welfare_impact has none for it, and evicts
   the oldest element from all three or from none. *)
C18_Lockstep ==
    /\ [](\A a, b \in Buffers : Len(history[a]) = Len(history[b]))
    /\ [][WelfareStep =>
            \/ \A b \in Buffers :
                   history'[b] =
                       Append(history[b], last'.data.welfare_impact[1][EntityOf(b)])
            \/ \A b \in Buffers :
                   /\ Len(history[b]) = HistoryCap
                   /\ history'[b] =
                          Tail(Append(history[b],
                                      last'.data.welfare_impact[1][EntityOf(b)]))]_vars

\* the part of C18 that every tick keeps: the buffers have the same length
SameLength == \A a, b \in Buffers : Len(history[a]) = Len(history[b])

(* C19: a successful tick whose snapshot has no welfare_impact leaves the
   three buffers as they were, no push and no eviction, and still updates
   lastTimestamp and staleTicks; and no tick, successful or not, shortens or
   clears a buffer: a buffer is unchanged, or got one element appended, or,
   being full, lost its oldest element for the one appended. *)
C19_BuffersKept ==
    [][/\ (TickStep /\ last'.data.welfare_impact = None) =>
            /\ history' = history
            /\ IF last'.data.timestamp = lastTimestamp
               THEN staleTicks' = staleTicks + 1 /\ lastTimestamp' = lastTimestamp
               ELSE staleTicks' = 0 /\ lastTimestamp' = last'.data.timestamp
       /\ (TickStep \/ AbortStep) =>
            \A b \in Buffers :
                \/ history'[b] = history[b]
                \/ /\ Len(history'[b]) = Len(history[b]) + 1
                   /\ SubSeq(history'[b], 1, Len(history[b])) = history[b]
                \/ /\ Len(history[b]) = HistoryCap
                   /\ Len(history'[b]) = HistoryCap
                   /\ SubSeq(history'[b], 1, HistoryCap - 1) = Tail(history[b])]_vars

C19_Witness ==
    /\ last.outcome = "ok"
    /\ last.data.welfare_impact = None
    /\ last.changed /\ last.preStale > 0 /\ staleTicks = 0
    /\ lastTimestamp = last.data.timestamp
    /\ Len(pushed.welfareAlpha) > HistoryCap
    /\ \A b \in Buffers : history[b] = LastN(pushed[b], HistoryCap)

====
